---- MODULE Spec2Model ----
(***************************************************************************)
(* Built-in extension functions of the build interpreter                   *)
(* (app/buck2_build_api/src/interpreter/rule_defs/mod.rs): the registry    *)
(* composition root register_rule_defs, the namespace injector             *)
(* load_symbols and the escalation function soft_error, together with the  *)
(* module evaluations that call them.                                      *)
(*                                                                         *)
(* Strings whose characters matter (soft-error categories) are sequences   *)
(* of one-character strings.  A namespace is a function from the names it  *)
(* binds to their values.  A Result is [ok |-> TRUE, val |-> v] or         *)
(* [ok |-> FALSE, err |-> e].                                              *)
(***************************************************************************)
EXTENDS Integers, Sequences, FiniteSets, TLC

VARIABLES
    groups,     \* the name sets of the built-in groups, in registration order
    regStatus,  \* "unbuilt", "built" or "failed" (construction panicked)
    registry,   \* built-in name -> index of the group that defines it
    status,     \* per module: "idle", "running", "frozen", "failed", "cancelled"
    ns,         \* per module: the in-progress ModuleNamespace
    frozen,     \* per module: the namespace exported to importers
    loaded,     \* per module: the <<module, name, value>> it imported
    assigned,   \* per module: name -> value of its last ordinary assignment
    injected,   \* per module: the <<name, value>> its load_symbols calls bound
    stale,      \* per module: the injected pairs whose name was bound again later
    sink,       \* the records the process-wide soft-error sink has received
    last,       \* the most recent built-in call: its inputs and its result
    calls       \* number of statements executed so far

vars == <<groups, regStatus, registry, status, ns, frozen, loaded, assigned,
          injected, stale, sink, last, calls>>

(***************************************************************************)
(* Bounds and input sets                                                   *)
(***************************************************************************)
\* The number of statements (assignments and built-in calls) all module
\* evaluations execute together.
MaxCalls == 2

Modules == {"a.bzl", "b.bzl"}
Messages == {"m1", "m2"}
Outcomes == {"continue", "fail"}

\* A namespace that binds nothing, and a namespace with k bound to v.
EmptyMap == [n \in {} |-> 0]

Bind(m, k, v) == [n \in (DOMAIN m) \cup {k} |-> IF n = k THEN v ELSE m[n]]

\* anyhow::Result
Ok(v) == [ok |-> TRUE, val |-> v]
Err(e) == [ok |-> FALSE, err |-> e]
NoneType == "None"

(***************************************************************************)
(* soft_error                                                              *)
(***************************************************************************)
StarlarkPrefix == <<"s", "t", "a", "r", "l", "a", "r", "k", "_">>

\* The categories a script passes: the bare prefix, a prefixed key, the
\* prefix without its underscore, and a key that only contains the prefix.
Keys ==
    { StarlarkPrefix,
      StarlarkPrefix \o <<"a">>,
      SubSeq(StarlarkPrefix, 1, Len(StarlarkPrefix) - 1),
      <<"a">> \o StarlarkPrefix }

\* starts_with against the prefix without its last character.
starts_with_short(s, p) ==
    /\ Len(s) >= Len(p) - 1
    /\ SubSeq(s, 1, Len(p) - 1) = SubSeq(p, 1, Len(p) - 1)

starts_with(s, p) ==
    /\ Len(s) >= Len(p)
    /\ SubSeq(s, 1, Len(p)) = p

StarlarkSoftError(category, message, call_stack) ==
    [tag |-> "StarlarkSoftError", category |-> category, message |-> message,
     call_stack |-> call_stack]

InvalidCategory(category) ==
    [tag |-> "InvalidCategory", category |-> category]

\* The frames of the evaluation of module m at a top-level call.
call_stack(m) == <<m>>

\* The textual rendering of a call stack: one "* frame" line per frame.
call_stack_to_string(frames) ==
    [i \in 1..Len(frames) |-> <<"*", frames[i]>>]

DiagnosticRecord(key, err) ==
    [key |-> key, message |-> err.message, call_stack |-> err.call_stack]

\* The sink: records the occurrence, forwards it downstream and answers the
\* outcome configured for the key; a transport failure degrades to continue.
report(log, key, err, configured, transportOk) ==
    [log |-> Append(log, DiagnosticRecord(key, err)),
     outcome |-> IF transportOk THEN configured ELSE "continue"]

\* soft_error!(category, err): Err(err) when the sink says the condition is
\* fatal, Ok(err) otherwise.
soft_error_macro(log, category, err, configured, transportOk) ==
    LET r == report(log, category, err, configured, transportOk)
    IN  [sink |-> r.log,
         result |-> IF r.outcome = "fail" THEN Err(err) ELSE Ok(err)]

\* soft_error without the `?`: the macro's verdict is dropped.
soft_error_unchecked(category, message, frames, log, configured, transportOk) ==
    IF ~starts_with(category, StarlarkPrefix)
    THEN [result |-> Err(InvalidCategory(category)), sink |-> log]
    ELSE LET r == soft_error_macro(
                      log, category,
                      StarlarkSoftError(category, message,
                                        call_stack_to_string(frames)),
                      configured, transportOk)
         IN  [result |-> Ok(NoneType), sink |-> r.sink]

\* soft_error that reports only the conditions configured as fatal.
soft_error_fatal_only(category, message, frames, log, configured, transportOk) ==
    IF ~starts_with(category, StarlarkPrefix)
    THEN [result |-> Err(InvalidCategory(category)), sink |-> log]
    ELSE IF configured # "fail"
    THEN [result |-> Ok(NoneType), sink |-> log]
    ELSE LET r == soft_error_macro(
                      log, category,
                      StarlarkSoftError(category, message,
                                        call_stack_to_string(frames)),
                      configured, transportOk)
         IN  IF ~r.result.ok
             THEN [result |-> r.result, sink |-> r.sink]
             ELSE [result |-> Ok(NoneType), sink |-> r.sink]

\* soft_error that always fails once the record is sent.
soft_error_always_err(category, message, frames, log, configured, transportOk) ==
    IF ~starts_with(category, StarlarkPrefix)
    THEN [result |-> Err(InvalidCategory(category)), sink |-> log]
    ELSE LET err == StarlarkSoftError(category, message,
                                      call_stack_to_string(frames))
             r == soft_error_macro(log, category, err, configured, transportOk)
         IN  [result |-> Err(err), sink |-> r.sink]

soft_error(category, message, frames, log, configured, transportOk) ==
    IF ~starts_with(category, StarlarkPrefix)
    THEN [result |-> Err(InvalidCategory(category)), sink |-> log]
    ELSE LET r == soft_error_macro(
                      log, category,
                      StarlarkSoftError(category, message,
                                        call_stack_to_string(frames)),
                      configured, transportOk)
         IN  IF ~r.result.ok
             THEN [result |-> r.result, sink |-> r.sink]
             ELSE [result |-> Ok(NoneType), sink |-> r.sink]

(***************************************************************************)
(* load_symbols                                                            *)
(***************************************************************************)
\* The mappings a script passes (a SmallMap: insertion-ordered, keys unique).
SymbolMaps ==
    { <<>>,
      <<[k |-> "x", v |-> 1], [k |-> "z", v |-> 3]>>,
      <<[k |-> "x", v |-> 2]>>,
      <<[k |-> "y", v |-> 3], [k |-> "x", v |-> 1]>> }

\* The ordinary top-level assignments a script makes.
Assignments == { <<"y", 2>>, <<"x", 3>> }

BindingError(name) == [tag |-> "BindingError", name |-> name]

\* Evaluator::set_module_variable_at_some_point: binds name to value in the
\* in-progress namespace, over whatever the name was bound to (the
\* documentation of load_symbols promises nothing for such an overlap);
\* BindingError when the namespace is not mutable.
set_module_variable_at_some_point(names, mutable, name, value) ==
    IF ~mutable
    THEN [result |-> Err(BindingError(name)), ns |-> names]
    ELSE [result |-> Ok(NoneType), ns |-> Bind(names, name, value)]

\* The loop of load_symbols from entry i on.  The namespace is mutable for
\* the first mutableFor entries (0 for a finished module; fewer than
\* Len(symbols) when the evaluation is aborted while the loop runs).
RECURSIVE load_symbols_from(_, _, _, _)
load_symbols_from(symbols, i, names, mutableFor) ==
    IF i > Len(symbols)
    THEN [result |-> Ok(NoneType), ns |-> names]
    ELSE LET r == set_module_variable_at_some_point(
                      names, i <= mutableFor, symbols[i].k, symbols[i].v)
         IN  IF ~r.result.ok
             THEN [result |-> r.result, ns |-> r.ns]
             ELSE load_symbols_from(symbols, i + 1, r.ns, mutableFor)

\* load_symbols that returns after its first entry.
load_symbols_first_only(symbols, names, mutableFor) ==
    load_symbols_from(IF symbols = <<>> THEN symbols ELSE <<symbols[1]>>,
                      1, names, mutableFor)

\* The loop with `let _ =` in place of `?`: failures are ignored.
RECURSIVE load_symbols_lenient_from(_, _, _, _)
load_symbols_lenient_from(symbols, i, names, mutableFor) ==
    IF i > Len(symbols)
    THEN [result |-> Ok(NoneType), ns |-> names]
    ELSE LET r == set_module_variable_at_some_point(
                      names, i <= mutableFor, symbols[i].k, symbols[i].v)
         IN  load_symbols_lenient_from(symbols, i + 1, r.ns, mutableFor)

load_symbols_ignore_errors(symbols, names, mutableFor) ==
    load_symbols_lenient_from(symbols, 1, names, mutableFor)

\* load_symbols that undoes its bindings when one fails.
load_symbols_rollback(symbols, names, mutableFor) ==
    LET r == load_symbols_from(symbols, 1, names, mutableFor)
    IN  IF r.result.ok THEN r ELSE [result |-> r.result, ns |-> names]

load_symbols(symbols, names, mutableFor) ==
    load_symbols_from(symbols, 1, names, mutableFor)

(***************************************************************************)
(* register_rule_defs                                                      *)
(***************************************************************************)
\* The names this file's extra_functions group defines.
extra_functions == {"load_symbols", "regex_match", "warning", "soft_error"}

\* The name sets the sibling groups may define, in registration order:
\* register_attrs, register_rule_function, register_cmd_args,
\* register_builtin_providers.
SiblingGroups ==
    { <<a, r, c, p>> :
        a \in {{"attrs"}, {"attrs", "foo"}},
        r \in {{"rule"}, {"rule", "foo"}},
        c \in {{"cmd_args"}},
        p \in {{"DefaultInfo"}, {"DefaultInfo", "warning"}} }

EmptyBuilder == [failed |-> FALSE, members |-> EmptyMap]

\* GlobalsBuilder::set: adds one member; a name defined twice fails the build.
GlobalsBuilder_set(builder, name, owner) ==
    IF builder.failed THEN builder
    ELSE IF name \in DOMAIN builder.members
         THEN [builder EXCEPT !.failed = TRUE]
         ELSE [builder EXCEPT !.members = Bind(@, name, owner)]

\* One group registering its names.
RECURSIVE register_group(_, _, _)
register_group(builder, names, owner) ==
    IF names = {} THEN builder
    ELSE LET n == CHOOSE x \in names : TRUE
         IN  register_group(GlobalsBuilder_set(builder, n, owner),
                            names \ {n}, owner)

RECURSIVE register_from(_, _, _)
register_from(gs, i, builder) ==
    IF i > Len(gs) THEN builder
    ELSE register_from(gs, i + 1, register_group(builder, gs[i], i))

\* register_rule_defs that leaves out a group whose registration fails.
RECURSIVE register_skipping(_, _, _)
register_skipping(gs, i, builder) ==
    IF i > Len(gs) THEN builder
    ELSE LET b == register_group(builder, gs[i], i)
         IN  register_skipping(gs, i + 1, IF b.failed THEN builder ELSE b)

register_rule_defs_skip(gs) == register_skipping(gs, 1, EmptyBuilder)

register_rule_defs(gs) == register_from(gs, 1, EmptyBuilder)

(***************************************************************************)
(* State                                                                   *)
(***************************************************************************)
Init ==
    /\ groups \in { s \o <<extra_functions>> : s \in SiblingGroups }
    /\ regStatus = "unbuilt"
    /\ registry = EmptyMap
    /\ status = [m \in Modules |-> "idle"]
    /\ ns = [m \in Modules |-> EmptyMap]
    /\ frozen = [m \in Modules |-> EmptyMap]
    /\ loaded = [m \in Modules |-> {}]
    /\ assigned = [m \in Modules |-> EmptyMap]
    /\ injected = [m \in Modules |-> {}]
    /\ stale = [m \in Modules |-> {}]
    /\ sink = <<>>
    /\ last = [op |-> "none"]
    /\ calls = 0

\* Process initialisation: the registry is composed once.
RegisterRuleDefs ==
    /\ regStatus = "unbuilt"
    /\ LET b == register_rule_defs(groups)
       IN  /\ regStatus' = IF b.failed THEN "failed" ELSE "built"
           /\ registry' = IF b.failed THEN registry ELSE b.members
    /\ UNCHANGED <<groups, status, ns, frozen, loaded, assigned, injected,
                   stale, sink, last, calls>>

\* A module evaluation starts once the modules it loads are frozen; it
\* observes what they exported.
Start(m) ==
    /\ regStatus = "built"
    /\ status[m] = "idle"
    /\ \E deps \in SUBSET {n \in Modules \ {m} : status[n] = "frozen"} :
         loaded' = [loaded EXCEPT ![m] =
                      UNION { { <<n, k, frozen[n][k]>> : k \in DOMAIN frozen[n] } :
                              n \in deps }]
    /\ status' = [status EXCEPT ![m] = "running"]
    /\ UNCHANGED <<groups, regStatus, registry, ns, frozen, assigned, injected,
                   stale, sink, last, calls>>

\* An ordinary top-level assignment name = value.
Assign(m) ==
    /\ status[m] = "running"
    /\ calls < MaxCalls
    /\ \E a \in Assignments :
         /\ ns' = [ns EXCEPT ![m] = Bind(@, a[1], a[2])]
         /\ assigned' = [assigned EXCEPT ![m] = Bind(@, a[1], a[2])]
         /\ stale' = [stale EXCEPT ![m] = @ \cup {p \in injected[m] : p[1] = a[1]}]
         /\ last' = [op |-> "assign", module |-> m, name |-> a[1], value |-> a[2]]
    /\ calls' = calls + 1
    /\ UNCHANGED <<groups, regStatus, registry, status, frozen, loaded,
                   injected, sink>>

Pairs(symbols) == { <<symbols[i].k, symbols[i].v>> : i \in 1..Len(symbols) }

\* LoadSymbols writing one namespace shared by every evaluation.
LoadSymbols_shared(m) ==
    /\ status[m] \in {"running", "frozen"}
    /\ calls < MaxCalls
    /\ \E symbols \in SymbolMaps :
       \E mutableFor \in (IF status[m] = "running" THEN 0..Len(symbols) ELSE {0}) :
         LET r == load_symbols(symbols, ns[m], mutableFor)
             applied == Pairs(SubSeq(symbols, 1, mutableFor))
         IN  /\ ns' = [n \in Modules |-> r.ns]
             /\ status' = [status EXCEPT ![m] =
                             IF status[m] = "running" /\ mutableFor < Len(symbols)
                             THEN "cancelled" ELSE @]
             /\ injected' = [injected EXCEPT ![m] = @ \cup applied]
             /\ stale' = [stale EXCEPT ![m] =
                            (@ \cup {p \in injected[m] :
                                       \E q \in applied : q[1] = p[1]}) \ applied]
             /\ last' = [op |-> "load_symbols", module |-> m,
                         symbols |-> symbols, mutableFor |-> mutableFor,
                         finished |-> (status[m] = "frozen"),
                         result |-> r.result, nsBefore |-> ns[m],
                         frozenBefore |-> frozen[m]]
    /\ calls' = calls + 1
    /\ UNCHANGED <<groups, regStatus, registry, frozen, loaded, assigned, sink>>

\* LoadSymbols exporting each binding as soon as it is made.
LoadSymbols_export(m) ==
    /\ status[m] \in {"running", "frozen"}
    /\ calls < MaxCalls
    /\ \E symbols \in SymbolMaps :
       \E mutableFor \in (IF status[m] = "running" THEN 0..Len(symbols) ELSE {0}) :
         LET r == load_symbols(symbols, ns[m], mutableFor)
             applied == Pairs(SubSeq(symbols, 1, mutableFor))
         IN  /\ ns' = [ns EXCEPT ![m] = r.ns]
             /\ frozen' = [frozen EXCEPT ![m] = r.ns]
             /\ status' = [status EXCEPT ![m] =
                             IF status[m] = "running" /\ mutableFor < Len(symbols)
                             THEN "cancelled" ELSE @]
             /\ injected' = [injected EXCEPT ![m] = @ \cup applied]
             /\ stale' = [stale EXCEPT ![m] =
                            (@ \cup {p \in injected[m] :
                                       \E q \in applied : q[1] = p[1]}) \ applied]
             /\ last' = [op |-> "load_symbols", module |-> m,
                         symbols |-> symbols, mutableFor |-> mutableFor,
                         finished |-> (status[m] = "frozen"),
                         result |-> r.result, nsBefore |-> ns[m],
                         frozenBefore |-> frozen[m]]
    /\ calls' = calls + 1
    /\ UNCHANGED <<groups, regStatus, registry, loaded, assigned, sink>>

\* A call of load_symbols(symbols) by module m, in its evaluation or (a host
\* integration bug) after it finished.
LoadSymbols(m) ==
    /\ status[m] \in {"running", "frozen"}
    /\ calls < MaxCalls
    /\ \E symbols \in SymbolMaps :
       \E mutableFor \in (IF status[m] = "running" THEN 0..Len(symbols) ELSE {0}) :
         LET r == load_symbols(symbols, ns[m], mutableFor)
             applied == Pairs(SubSeq(symbols, 1, mutableFor))
         IN  /\ ns' = [ns EXCEPT ![m] = r.ns]
             /\ status' = [status EXCEPT ![m] =
                             IF status[m] = "running" /\ mutableFor < Len(symbols)
                             THEN "cancelled" ELSE @]
             /\ injected' = [injected EXCEPT ![m] = @ \cup applied]
             /\ stale' = [stale EXCEPT ![m] =
                            (@ \cup {p \in injected[m] :
                                       \E q \in applied : q[1] = p[1]}) \ applied]
             /\ last' = [op |-> "load_symbols", module |-> m,
                         symbols |-> symbols, mutableFor |-> mutableFor,
                         finished |-> (status[m] = "frozen"),
                         result |-> r.result, nsBefore |-> ns[m],
                         frozenBefore |-> frozen[m]]
    /\ calls' = calls + 1
    /\ UNCHANGED <<groups, regStatus, registry, frozen, loaded, assigned, sink>>

\* A call of soft_error(category, message) by module m.
SoftError(m) ==
    /\ status[m] = "running"
    /\ calls < MaxCalls
    /\ \E k \in Keys, msg \in Messages, cfg \in Outcomes, t \in BOOLEAN :
         LET r == soft_error(k, msg, call_stack(m), sink, cfg, t)
         IN  /\ sink' = r.sink
             /\ status' = [status EXCEPT ![m] = IF r.result.ok THEN @ ELSE "failed"]
             /\ last' = [op |-> "soft_error", module |-> m, key |-> k,
                         message |-> msg, configured |-> cfg, transportOk |-> t,
                         result |-> r.result, nsBefore |-> ns[m],
                         sinkBefore |-> sink]
    /\ calls' = calls + 1
    /\ UNCHANGED <<groups, regStatus, registry, ns, frozen, loaded, assigned,
                   injected, stale>>

\* The evaluation of m ends normally: its namespace is frozen and exported.
Finish(m) ==
    /\ status[m] = "running"
    /\ status' = [status EXCEPT ![m] = "frozen"]
    /\ frozen' = [frozen EXCEPT ![m] = ns[m]]
    /\ UNCHANGED <<groups, regStatus, registry, ns, loaded, assigned, injected,
                   stale, sink, last, calls>>

\* The evaluation of m is cancelled from outside.
Cancel(m) ==
    /\ status[m] = "running"
    /\ status' = [status EXCEPT ![m] = "cancelled"]
    /\ UNCHANGED <<groups, regStatus, registry, ns, frozen, loaded, assigned,
                   injected, stale, sink, last, calls>>

Next ==
    \/ RegisterRuleDefs
    \/ \E m \in Modules : Start(m)
    \/ \E m \in Modules : Assign(m)
    \/ \E m \in Modules : LoadSymbols(m)
    \/ \E m \in Modules : SoftError(m)
    \/ \E m \in Modules : Finish(m)
    \/ \E m \in Modules : Cancel(m)

Spec == Init /\ [][Next]_vars
(***************************************************************************)
(* Properties                                                              *)
(***************************************************************************)
\* Whether category k carries the reserved prefix, character by character.
HasReservedPrefix(k) ==
    /\ Len(k) >= Len(StarlarkPrefix)
    /\ \A i \in 1..Len(StarlarkPrefix) : k[i] = StarlarkPrefix[i]

\* The record the sink is to receive for the last soft_error call.
ExpectedRecord ==
    [key |-> last.key, message |-> last.message,
     call_stack |-> << <<"*", last.module>> >>]

\* The error a fatal soft_error call is to fail with.
ExpectedSoftError ==
    [tag |-> "StarlarkSoftError", category |-> last.key,
     message |-> last.message, call_stack |-> << <<"*", last.module>> >>]

\* C1: soft_error with a key that does not start with `starlark_` fails
\* with InvalidCategory carrying the key, whatever the message and the
\* configured outcome, and the sink receives no record for the call.
C1_InvalidKeyRejected ==
    (last.op = "soft_error" /\ ~HasReservedPrefix(last.key)) =>
        /\ last.result = [ok |-> FALSE,
                          err |-> [tag |-> "InvalidCategory",
                                   category |-> last.key]]
        /\ sink = last.sinkBefore
        /\ status[last.module] = "failed"

C1_Witness ==
    /\ last.op = "soft_error"
    /\ last.key = <<"s", "t", "a", "r", "l", "a", "r", "k">>
    /\ last.configured = "continue"
    /\ ~last.result.ok
    /\ last.result.err.tag = "InvalidCategory"
    /\ Len(last.sinkBefore) = 1
    /\ sink = last.sinkBefore

C3_ContinueReturnsNone ==
    (/\ last.op = "soft_error"
     /\ HasReservedPrefix(last.key)
     /\ last.configured = "continue") =>
        /\ last.result = [ok |-> TRUE, val |-> "None"]
        /\ sink = Append(last.sinkBefore, ExpectedRecord)
        /\ ns[last.module] = last.nsBefore
        /\ status[last.module] # "failed"

C3_Witness ==
    /\ last.op = "soft_error"
    /\ HasReservedPrefix(last.key)
    /\ last.configured = "continue"
    /\ last.result.ok
    /\ last.nsBefore # EmptyMap
    /\ ns[last.module] = last.nsBefore
    /\ Len(sink) = 1
    /\ sink[1].message = last.message

NamesOf(pairs) == { p[1] : p \in pairs }

\* What an importer of m must observe of the pairs in `pairs`: each is
\* exported by m, and every module that loaded m loaded it with that value.
Exported(m, pairs) ==
    \A p \in pairs :
        /\ p[1] \in DOMAIN frozen[m]
        /\ frozen[m][p[1]] = p[2]
        /\ \A n \in Modules :
              (\E t \in loaded[n] : t[1] = m) => <<m, p[1], p[2]>> \in loaded[n]

\* The names m bound by ordinary assignment and by no load_symbols call.
AssignedOnly(m) ==
    { <<k, assigned[m][k]>> : k \in (DOMAIN assigned[m]) \ NamesOf(injected[m]) }

\* load_symbols({}) changes nothing.
EmptyLoadIsNoOp ==
    (last.op = "load_symbols" /\ last.symbols = <<>>) =>
        /\ last.result = [ok |-> TRUE, val |-> "None"]
        /\ ns[last.module] = last.nsBefore

C6_LateCallAsStated ==
    (last.op = "load_symbols" /\ last.finished) =>
        /\ ~last.result.ok
        /\ last.result.err.tag = "BindingError"
        /\ ns[last.module] = last.nsBefore
        /\ frozen[last.module] = last.frozenBefore

\* C6 amended: load_symbols called with at least one binding on a module
\* whose evaluation has finished fails with BindingError (for the first
\* entry); called with an empty mapping it returns None; in both cases no
\* binding of the call is written into the finished module's namespace.
C6_LateCallFailsUnlessEmpty ==
    (last.op = "load_symbols" /\ last.finished) =>
        /\ Len(last.symbols) > 0 =>
              last.result = [ok |-> FALSE,
                             err |-> [tag |-> "BindingError",
                                      name |-> last.symbols[1].k]]
        /\ Len(last.symbols) = 0 => last.result = [ok |-> TRUE, val |-> "None"]
        /\ ns[last.module] = last.nsBefore
        /\ frozen[last.module] = last.frozenBefore

C6_Witness ==
    /\ last.op = "load_symbols"
    /\ last.finished
    /\ Len(last.symbols) = 2
    /\ ~last.result.ok
    /\ status[last.module] = "frozen"
    /\ frozen[last.module] # EmptyMap
    /\ frozen[last.module] = last.frozenBefore

\* C9: when a module evaluation is aborted (cancelled, or failed by a later
\* fatal soft_error or a failing call) after load_symbols applied bindings,
\* the bindings are discarded: the module exports nothing and no module
\* has loaded anything from it.
C9_AbortDiscardsBindings ==
    \A m \in Modules :
        status[m] \in {"cancelled", "failed"} =>
            /\ frozen[m] = EmptyMap
            /\ \A n \in Modules : \A t \in loaded[n] : t[1] # m

C9_Witness ==
    /\ status["a.bzl"] = "failed"
    /\ last.op = "soft_error"
    /\ last.module = "a.bzl"
    /\ injected["a.bzl"] = {<<"x", 1>>, <<"z", 3>>}
    /\ ns["a.bzl"] # EmptyMap
    /\ status["b.bzl"] = "running"
    /\ loaded["b.bzl"] = {}

\* The namespace `before` with the first n entries of symbols bound.
WithPrefix(before, symbols, n) ==
    [name \in (DOMAIN before) \cup { symbols[i].k : i \in 1..n } |->
        IF \E i \in 1..n : symbols[i].k = name
        THEN symbols[CHOOSE i \in 1..n : symbols[i].k = name].v
        ELSE before[name]]

\* C10: load_symbols binds its entries one at a time in iteration order and
\* stops at the first that fails: when it returns the error the namespace
\* holds the entries before the failing one, and none at or after it.
C10_StopsAtFirstFailure ==
    (last.op = "load_symbols" /\ ~last.result.ok) =>
        /\ last.mutableFor < Len(last.symbols)
        /\ last.result.err = [tag |-> "BindingError",
                              name |-> last.symbols[last.mutableFor + 1].k]
        /\ ns[last.module] =
              WithPrefix(last.nsBefore, last.symbols, last.mutableFor)

C10_Witness ==
    /\ last.op = "load_symbols"
    /\ ~last.result.ok
    /\ last.symbols = <<[k |-> "x", v |-> 1], [k |-> "z", v |-> 3]>>
    /\ last.mutableFor = 1
    /\ last.nsBefore = [n \in {"y"} |-> 2]
    /\ ns[last.module] = [n \in {"x", "y"} |-> IF n = "x" THEN 1 ELSE 2]

\* Two of the groups define the same name.
Collides(gs) ==
    \E i \in 1..Len(gs), j \in 1..Len(gs) : i < j /\ gs[i] \cap gs[j] # {}

\* C5: building the registry from groups of which two define the same name
\* fails at construction, before any module evaluation starts; a registry
\* that was built holds every name of every group under its own group.
C5_CollisionFailsConstruction ==
    /\ (Collides(groups) /\ regStatus # "unbuilt") =>
          /\ regStatus = "failed"
          /\ registry = EmptyMap
          /\ \A m \in Modules : status[m] = "idle"
    /\ regStatus = "built" =>
          \A i \in 1..Len(groups) : \A n \in groups[i] :
              n \in DOMAIN registry /\ registry[n] = i

C5_Witness ==
    /\ regStatus = "failed"
    /\ "foo" \in groups[1] \cap groups[2]
    /\ registry = EmptyMap

\* C8: a load_symbols or soft_error call of one evaluation changes nothing
\* of any other module (its namespace, its exports, its state), and the
\* registry, once built, never changes.
C8_CallsAreIsolated ==
    [][ /\ (calls' # calls /\ last'.op \in {"load_symbols", "soft_error"}) =>
              \A n \in Modules \ {last'.module} :
                  /\ ns'[n] = ns[n]
                  /\ frozen'[n] = frozen[n]
                  /\ status'[n] = status[n]
                  /\ loaded'[n] = loaded[n]
        /\ regStatus = "built" =>
              /\ registry' = registry
              /\ regStatus' = regStatus
              /\ groups' = groups ]_vars

C8_Witness ==
    /\ last.op = "load_symbols"
    /\ ~last.result.ok
    /\ last.mutableFor = 1
    /\ \E n \in Modules \ {last.module} :
          /\ status[n] = "running"
          /\ ns[n] = [k \in {"y"} |-> 2]
    /\ regStatus = "built"
    /\ registry["load_symbols"] = 5

====
